---- MODULE Spec2Model ----
(***************************************************************************)
(* The maintenance-tracking record manager of app.py: six SQLAlchemy       *)
(* models over one relational store and eighteen POST request handlers     *)
(* (create / edit / delete for each model), run by concurrent workers.     *)
(*                                                                         *)
(* A handler reads inside its own session (get_or_404, the cascade loads   *)
(* of session.delete) and writes only in db.session.commit(), which        *)
(* flushes the session and commits the transaction in one step.  What the  *)
(* storage engine does with the flushed statements (foreign-key checks,    *)
(* ON DELETE CASCADE, identifier allocation, atomic commit) is selected by *)
(* config.py, which is not part of the sources; it is modelled from the    *)
(* specification (an engine with foreign keys and transactions).           *)
(***************************************************************************)
EXTENDS Integers, FiniteSets, Sequences, TLC

VARIABLES
    db,      \* the committed rows: table name -> (id -> row)
    seq,     \* the engine's next identifier of each table
    issued,  \* history: the identifiers each table has ever handed out
    pc,      \* per worker: "idle", or the route whose handler is before its commit
    req,     \* per worker: the request in progress (id and form)
    sess,    \* per worker: db.session (identity map, new, dirty, deleted)
    resp     \* the response of the request that finished last

vars == <<db, seq, issued, pc, req, sess, resp>>

----------------------------------------------------------------------------
(* Bounds of the model. *)

NumWorkers == 2
MaxEquipment == 2
MaxEvent == 1
MaxPlan == 2
MaxAsset == 1
MaxNeed == 1
MaxCompleted == 1

MaxConcurrentRows == 1

Workers == 1..NumWorkers

\* The rows a table may have received: one request at a time ...
Caps ==
    [equipment |-> MaxEquipment, toro_event |-> MaxEvent,
     maintenance_plan |-> MaxPlan, material_assets |-> MaxAsset,
     needs |-> MaxNeed, completed_work |-> MaxCompleted]

\* ... and under concurrent workers.
ConcurrentCaps ==
    [equipment |-> MaxConcurrentRows, toro_event |-> MaxConcurrentRows,
     maintenance_plan |-> MaxConcurrentRows, material_assets |-> MaxConcurrentRows,
     needs |-> MaxConcurrentRows, completed_work |-> MaxConcurrentRows]

----------------------------------------------------------------------------
(* The schema. *)

NULL == 0

Tables ==
    {"equipment", "toro_event", "maintenance_plan", "material_assets", "needs",
     "completed_work"}

\* MaintenancePlan.equipmentid declared as a plain Integer column, without
\* its ForeignKey.
ForeignKeys_EquipmentUndeclared ==
    { [table |-> "maintenance_plan", column |-> "eventid",
       parent |-> "toro_event", ondelete |-> "CASCADE"],
      [table |-> "needs", column |-> "maintenanceplanid",
       parent |-> "maintenance_plan", ondelete |-> "CASCADE"],
      [table |-> "needs", column |-> "materialassetid",
       parent |-> "material_assets", ondelete |-> "CASCADE"],
      [table |-> "completed_work", column |-> "maintenanceplanid",
       parent |-> "maintenance_plan", ondelete |-> "CASCADE"] }

\* db.Column(db.Integer, db.ForeignKey(..., ondelete='CASCADE'))
ForeignKeys ==
    { [table |-> "maintenance_plan", column |-> "equipmentid",
       parent |-> "equipment", ondelete |-> "CASCADE"],
      [table |-> "maintenance_plan", column |-> "eventid",
       parent |-> "toro_event", ondelete |-> "CASCADE"],
      [table |-> "needs", column |-> "maintenanceplanid",
       parent |-> "maintenance_plan", ondelete |-> "CASCADE"],
      [table |-> "needs", column |-> "materialassetid",
       parent |-> "material_assets", ondelete |-> "CASCADE"],
      [table |-> "completed_work", column |-> "maintenanceplanid",
       parent |-> "maintenance_plan", ondelete |-> "CASCADE"] }

\* MaintenancePlan.completed_works declared without cascade="all, delete".
Relationships_WorksNotCascaded ==
    { [parent |-> "equipment", child |-> "maintenance_plan",
       column |-> "equipmentid", cascade_delete |-> TRUE],
      [parent |-> "toro_event", child |-> "maintenance_plan",
       column |-> "eventid", cascade_delete |-> TRUE],
      [parent |-> "maintenance_plan", child |-> "needs",
       column |-> "maintenanceplanid", cascade_delete |-> TRUE],
      [parent |-> "maintenance_plan", child |-> "completed_work",
       column |-> "maintenanceplanid", cascade_delete |-> FALSE],
      [parent |-> "material_assets", child |-> "needs",
       column |-> "materialassetid", cascade_delete |-> FALSE] }

\* db.relationship(...): the one-to-many collections the ORM walks on delete.
\* Need.material_asset declares backref='needs' with the default cascade,
\* which has no "delete" in it.
Relationships ==
    { [parent |-> "equipment", child |-> "maintenance_plan",
       column |-> "equipmentid", cascade_delete |-> TRUE],
      [parent |-> "toro_event", child |-> "maintenance_plan",
       column |-> "eventid", cascade_delete |-> TRUE],
      [parent |-> "maintenance_plan", child |-> "needs",
       column |-> "maintenanceplanid", cascade_delete |-> TRUE],
      [parent |-> "maintenance_plan", child |-> "completed_work",
       column |-> "maintenanceplanid", cascade_delete |-> TRUE],
      [parent |-> "material_assets", child |-> "needs",
       column |-> "materialassetid", cascade_delete |-> FALSE] }

\* The db.Integer columns a form string is stored into.
IntegerColumns ==
    {"equipmentid", "eventid", "maintenanceplanid", "materialassetid", "quantity"}

\* The columns each handler assigns, in the order of the code, with the
\* conversion it applies to request.form[column].
EquipmentColumns ==
    << [col |-> "type", conv |-> "str"], [col |-> "name", conv |-> "str"],
       [col |-> "status", conv |-> "str"],
       [col |-> "lastmaintenancedate", conv |-> "optdate"] >>

EventColumns ==
    << [col |-> "name", conv |-> "str"], [col |-> "description", conv |-> "str"] >>

PlanColumns ==
    << [col |-> "equipmentid", conv |-> "str"], [col |-> "eventid", conv |-> "str"],
       [col |-> "periodicity", conv |-> "str"] >>

AssetColumns ==
    << [col |-> "materialname", conv |-> "str"], [col |-> "price", conv |-> "str"] >>

NeedColumns ==
    << [col |-> "maintenanceplanid", conv |-> "str"],
       [col |-> "materialassetid", conv |-> "str"],
       [col |-> "quantity", conv |-> "str"] >>

CompletedColumns ==
    << [col |-> "maintenanceplanid", conv |-> "str"],
       [col |-> "completion_date", conv |-> "date"] >>

----------------------------------------------------------------------------
(* request.form: what a client may post.  A key the form lacks is Missing. *)

Missing == "<missing>"

IdStrings(n) == {ToString(i) : i \in 1..n}

EquipmentForms ==
    { [type |-> "mower", name |-> "M1", status |-> "active",
       lastmaintenancedate |-> ""],
      [type |-> "saw", name |-> "S1", status |-> "broken",
       lastmaintenancedate |-> "2024-01-05"],
      [type |-> "saw", name |-> "M1", status |-> "active",
       lastmaintenancedate |-> "05.01.2024"],
      [type |-> "saw", name |-> Missing, status |-> Missing,
       lastmaintenancedate |-> Missing] }

EventForms ==
    { [name |-> "sharpen", description |-> "blades"],
      [name |-> "oil", description |-> Missing] }

PlanForms(cap) ==
    { [equipmentid |-> e, eventid |-> v, periodicity |-> "monthly"] :
        e \in IdStrings(cap.equipment), v \in IdStrings(cap.toro_event) }
    \cup { [equipmentid |-> e, eventid |-> Missing, periodicity |-> Missing] :
             e \in IdStrings(cap.equipment) }

AssetForms ==
    { [materialname |-> "oil", price |-> "9.99"],
      [materialname |-> "blade", price |-> Missing] }

NeedForms(cap) ==
    { [maintenanceplanid |-> p, materialassetid |-> m, quantity |-> q] :
        p \in IdStrings(cap.maintenance_plan), m \in IdStrings(cap.material_assets),
        q \in {"-1", "2"} }
    \cup { [maintenanceplanid |-> p, materialassetid |-> Missing, quantity |-> Missing] :
             p \in IdStrings(cap.maintenance_plan) }

CompletedForms(cap) ==
    { [maintenanceplanid |-> p, completion_date |-> d] :
        p \in IdStrings(cap.maintenance_plan), d \in {"2024-01-05", "05.01.2024"} }

----------------------------------------------------------------------------
(* Conversions of form strings. *)

Ok(v) == [err |-> "", val |-> v]
Raise(e) == [err |-> e, val |-> NULL]

\* datetime.strptime(s, '%Y-%m-%d').date(): a date (here yyyymmdd) or ValueError.
strptime(s) ==
    CASE s = "2024-01-05" -> Ok(20240105)
      [] s = "2024-02-29" -> Ok(20240229)
      [] OTHER -> Raise("ValueError")

\* request.form[key], converted as the handler converts it.
FormValue(form, a) ==
    IF form[a.col] = Missing THEN Raise("BadRequestKeyError")
    ELSE CASE a.conv = "str" -> Ok(form[a.col])
           [] a.conv = "date" -> strptime(form[a.col])
           [] a.conv = "optdate" ->
                IF form[a.col] = "" THEN Ok(NULL) ELSE strptime(form[a.col])

\* The assignments of a handler, in order, up to the first one that raises:
\* the values assigned so far and the exception, if any.
RECURSIVE Assign(_, _, _, _)
Assign(attrs, form, k, acc) ==
    IF k > Len(attrs) THEN [err |-> "", set |-> acc]
    ELSE LET v == FormValue(form, attrs[k])
         IN  IF v.err # "" THEN [err |-> v.err, set |-> acc]
             ELSE Assign(attrs, form, k + 1, acc @@ (attrs[k].col :> v.val))

NoAttrs == [c \in {} |-> NULL]

\* The engine's conversion of a bound string parameter of an Integer column.
IntRange == -9..9
int(s) == CHOOSE i \in IntRange : ToString(i) = s

Coerce(col, v) == IF col \in IntegerColumns THEN int(v) ELSE v

----------------------------------------------------------------------------
(* Tables as functions from identifier to row. *)

Ids(d, t) == DOMAIN d[t]

Rows(d, t, keep) == [i \in keep |-> d[t][i]]

Without(d, gone) ==
    [t \in Tables |-> Rows(d, t, {i \in Ids(d, t) : <<t, i>> \notin gone})]

Put(d, t, id, row) ==
    [d EXCEPT ![t] = [i \in Ids(d, t) \cup {id} |-> IF i = id THEN row ELSE d[t][i]]]

EmptyTable == [i \in {} |-> NULL]

\* The collection loaded without its join condition: every row of rel.child.
Children_Unfiltered(d, rel, p) == Ids(d, rel.child)

\* The rows of rel.child whose foreign key is the row p of rel.parent.
Children(d, rel, p) == {c \in Ids(d, rel.child) : d[rel.child][c][rel.column] = p}

----------------------------------------------------------------------------
(* db.session: the unit of work of one request. *)

EmptySession == [identity |-> {}, new |-> <<>>, dirty |-> {}, deleted |-> {}]

\* Model.query.get(id): None for a missing row, on which the handler's next
\* attribute access raises.
query_get(d, t, id) ==
    IF id \in Ids(d, t) THEN [status |-> "200", row |-> d[t][id]]
    ELSE [status |-> "AttributeError", row |-> NULL]

\* Model.query.get_or_404(id): the row, loaded into the identity map, or 404.
get_or_404(d, t, id) ==
    IF id \in Ids(d, t) THEN [status |-> "200", row |-> d[t][id]]
    ELSE [status |-> "404", row |-> NULL]

\* db.session.delete(obj): marks obj deleted and, along every relationship
\* whose cascade has "delete", loads the collection and marks its members,
\* recursively.
RECURSIVE DeleteCascade(_, _, _)
DeleteCascade(d, marked, frontier) ==
    LET more == UNION { UNION { { <<rel.child, c>> : c \in Children(d, rel, o[2]) } :
                                rel \in {r \in Relationships :
                                           r.parent = o[1] /\ r.cascade_delete} } :
                        o \in frontier }
    IN  IF more \subseteq marked THEN marked
        ELSE DeleteCascade(d, marked \cup more, more \ marked)

session_delete(d, s, t, id) ==
    [s EXCEPT !.deleted = DeleteCascade(d, @ \cup {<<t, id>>}, {<<t, id>>})]

\* db.session.add(obj)
session_add(s, t, row) == [s EXCEPT !.new = Append(@, [table |-> t, row |-> row])]

\* Attribute assignment on a loaded object: the attributes whose new value
\* differs from the loaded one are written by the next flush.  A form string
\* assigned to an Integer attribute always differs from the loaded integer.
Changed(loaded, assigned) ==
    {c \in DOMAIN assigned : c \in IntegerColumns \/ assigned[c] # loaded[c]}

session_assign(s, t, id, loaded, assigned) ==
    LET cols == Changed(loaded, assigned)
    IN  IF cols = {} THEN s
        ELSE [s EXCEPT !.dirty =
                {x \in @ : ~(x.table = t /\ x.id = id)}
                \cup {[table |-> t, id |-> id, changes |-> [c \in cols |-> assigned[c]]]}]

\* A session that outlives its request: nothing is discarded.
session_kept(s) == s

\* The teardown the SQLAlchemy(app) extension registers: session.remove()
\* at the end of every request, which discards whatever was not committed.
shutdown_session(s) == EmptySession

----------------------------------------------------------------------------
(* The storage engine. *)

\* An engine that numbers a new row one above the highest stored identifier.
max_rowid(d, sq, t) ==
    IF Ids(d, t) = {} THEN 1
    ELSE 1 + CHOOSE m \in Ids(d, t) : \A i \in Ids(d, t) : i <= m

\* The identifier of the next inserted row of table t.
nextval(d, sq, t) == sq[t]

\* INSERT of the session's new objects, in order.
RECURSIVE Inserts(_, _)
Inserts(st, new) ==
    IF new = <<>> THEN st
    ELSE LET o == Head(new)
             id == nextval(st.db, st.seq, o.table)
             row == [c \in DOMAIN o.row |-> Coerce(c, o.row[c])]
         IN  Inserts([db |-> Put(st.db, o.table, id, row),
                      seq |-> [st.seq EXCEPT ![o.table] = id + 1],
                      ids |-> st.ids \cup {<<o.table, id>>}],
                     Tail(new))

\* UPDATE <table> SET <changed columns> WHERE id = <id>, for every dirty object.
Stale(d, dirty) == \E x \in dirty : x.id \notin Ids(d, x.table)

Updates(d, dirty) ==
    IF dirty = {} THEN d ELSE
    [t \in Tables |->
        [i \in Ids(d, t) |->
            IF \E x \in dirty : x.table = t /\ x.id = i
            THEN LET x == CHOOSE y \in dirty : y.table = t /\ y.id = i
                 IN  [c \in DOMAIN d[t][i] |->
                        IF c \in DOMAIN x.changes THEN Coerce(c, x.changes[c])
                        ELSE d[t][i][c]]
            ELSE d[t][i]]]

\* The flush of a deleted parent along a relationship without delete cascade:
\* the ORM loads the collection and sets the foreign key of each member that
\* is not itself deleted to NULL.
Nullified(d, deleted) ==
    IF deleted = {} THEN d ELSE
    [t \in Tables |->
        [i \in Ids(d, t) |->
            [c \in DOMAIN d[t][i] |->
                IF /\ <<t, i>> \notin deleted
                   /\ \E rel \in Relationships :
                        /\ rel.child = t /\ rel.column = c /\ ~rel.cascade_delete
                        /\ <<rel.parent, d[t][i][c]>> \in deleted
                        /\ d[t][i][c] \in Ids(d, rel.parent)
                THEN NULL
                ELSE d[t][i][c]]]]

\* ON DELETE CASCADE: the rows whose foreign key names a row deleted by this
\* transaction go with it, and so on.
RECURSIVE OnDeleteCascade(_, _)
OnDeleteCascade(d, gone) ==
    IF gone = {} THEN d ELSE
    LET more == UNION { { <<fk.table, i>> :
                            i \in {j \in Ids(d, fk.table) :
                                     <<fk.parent, d[fk.table][j][fk.column]>> \in gone} } :
                        fk \in {f \in ForeignKeys : f.ondelete = "CASCADE"} }
    IN  IF more = {} THEN d ELSE OnDeleteCascade(Without(d, more), more)

\* Every foreign key is NULL or names a row of its parent table.
ForeignKeysHold(d) ==
    \A fk \in ForeignKeys : \A i \in Ids(d, fk.table) :
        \/ d[fk.table][i][fk.column] = NULL
        \/ d[fk.table][i][fk.column] \in Ids(d, fk.parent)

RowCount(d) == Cardinality(UNION {{<<t, i>> : i \in Ids(d, t)} : t \in Tables})

\* db.session.commit(): the flush (INSERTs, UPDATEs, then DELETEs) and the
\* COMMIT, as one transaction: either all of it is applied or none.
commit(d, sq, s) ==
    LET ins == Inserts([db |-> d, seq |-> sq, ids |-> {}], s.new)
        upd == Updates(ins.db, s.dirty)
        here == {o \in s.deleted : o[2] \in Ids(upd, o[1])}
        del == OnDeleteCascade(Without(Nullified(upd, here), here), here)
    IN  IF Stale(ins.db, s.dirty)
        THEN [status |-> "StaleDataError", db |-> d, seq |-> sq, ids |-> {}, rows |-> 0]
        ELSE IF ~ForeignKeysHold(del)
        THEN [status |-> "IntegrityError", db |-> d, seq |-> sq, ids |-> {}, rows |-> 0]
        ELSE [status |-> "302", db |-> del, seq |-> ins.seq, ids |-> ins.ids,
              rows |-> RowCount(upd) - RowCount(del)]

----------------------------------------------------------------------------
(* What a handler does, as functions of the store and its session. *)

\* The object of (t, id) in the session's identity map.
Loaded(s, t, id) == CHOOSE o \in s.identity : o.table = t /\ o.id = id

Load(s, t, id, row) ==
    [s EXCEPT !.identity = {o \in @ : ~(o.table = t /\ o.id = id)}
                           \cup {[table |-> t, id |-> id, row |-> row]}]

\* An exception before the commit: nothing reaches the store.
Raised(d, sq, s, e) ==
    [status |-> e, db |-> d, seq |-> sq, ids |-> {}, rows |-> 0, sess |-> s]

\* db.session.commit() and the redirect, or the exception commit raises.
Committed(d, sq, s) ==
    LET c == commit(d, sq, s)
    IN  [status |-> c.status, db |-> c.db, seq |-> c.seq, ids |-> c.ids,
         rows |-> c.rows, sess |-> IF c.status = "302" THEN EmptySession ELSE s]

\* POST /<things>/create: the constructor from request.form, add, commit.
Created(d, sq, s, t, attrs, form) ==
    LET a == Assign(attrs, form, 1, NoAttrs)
    IN  IF a.err # "" THEN Raised(d, sq, s, a.err)
        ELSE Committed(d, sq, session_add(s, t, a.set))

\* POST /<things>/<id>/edit after get_or_404: the assignments from
\* request.form, in order, then the commit.
Edited(d, sq, s, t, id, attrs, form) ==
    LET a == Assign(attrs, form, 1, NoAttrs)
        s1 == session_assign(s, t, id, Loaded(s, t, id).row, a.set)
    IN  IF a.err # "" THEN Raised(d, sq, s1, a.err) ELSE Committed(d, sq, s1)

\* A whole edit handler, run without interruption.
Edit(d, sq, s, t, id, attrs, form) ==
    LET g == get_or_404(d, t, id)
    IN  IF g.status # "200" THEN Raised(d, sq, s, g.status)
        ELSE Edited(d, sq, Load(s, t, id, g.row), t, id, attrs, form)

\* A whole delete handler, run without interruption.
Delete(d, sq, s, t, id) ==
    LET g == get_or_404(d, t, id)
    IN  IF g.status # "200" THEN Raised(d, sq, s, g.status)
        ELSE Committed(d, sq, session_delete(d, Load(s, t, id, g.row), t, id))

----------------------------------------------------------------------------
(* The state machine. *)

NoRequest == [route |-> "", id |-> NULL, form |-> <<>>]

Init ==
    /\ db = [t \in Tables |-> EmptyTable]
    /\ seq = [t \in Tables |-> 1]
    /\ issued = [t \in Tables |-> {}]
    /\ pc = [w \in Workers |-> "idle"]
    /\ req = [w \in Workers |-> NoRequest]
    /\ sess = [w \in Workers |-> EmptySession]
    /\ resp = [route |-> "", status |-> "", rows |-> 0]

\* The request of worker w ends with outcome o: the store is as the handler
\* left it, the response goes out and the session is torn down.
Respond(w, route, o) ==
    /\ db' = o.db
    /\ seq' = o.seq
    /\ issued' = [t \in Tables |-> issued[t] \cup {x[2] : x \in {y \in o.ids : y[1] = t}}]
    /\ pc' = [pc EXCEPT ![w] = "idle"]
    /\ req' = [req EXCEPT ![w] = NoRequest]
    /\ sess' = [sess EXCEPT ![w] = shutdown_session(o.sess)]
    /\ resp' = [route |-> route, status |-> o.status, rows |-> o.rows]

\* The worker of the specification that serves one request at a time.
Main == CHOOSE w \in Workers : \A v \in Workers : w <= v

----------------------------------------------------------------------------
(* The request handlers, each served from request to response. *)

create_equipment ==
    /\ pc[Main] = "idle"
    /\ seq.equipment <= Caps.equipment
    /\ \E form \in EquipmentForms :
          Respond(Main, "create_equipment",
                  Created(db, seq, sess[Main], "equipment", EquipmentColumns, form))

edit_equipment ==
    /\ pc[Main] = "idle"
    /\ \E id \in 1..Caps.equipment :
          \E form \in IF id \in Ids(db, "equipment") THEN EquipmentForms ELSE {<<>>} :
             Respond(Main, "edit_equipment",
                     Edit(db, seq, sess[Main], "equipment", id, EquipmentColumns, form))

delete_equipment ==
    /\ pc[Main] = "idle"
    /\ \E id \in 1..Caps.equipment :
          Respond(Main, "delete_equipment", Delete(db, seq, sess[Main], "equipment", id))

create_event ==
    /\ pc[Main] = "idle"
    /\ seq.toro_event <= Caps.toro_event
    /\ \E form \in EventForms :
          Respond(Main, "create_event",
                  Created(db, seq, sess[Main], "toro_event", EventColumns, form))

edit_event ==
    /\ pc[Main] = "idle"
    /\ \E id \in 1..Caps.toro_event :
          \E form \in IF id \in Ids(db, "toro_event") THEN EventForms ELSE {<<>>} :
             Respond(Main, "edit_event",
                     Edit(db, seq, sess[Main], "toro_event", id, EventColumns, form))

delete_event ==
    /\ pc[Main] = "idle"
    /\ \E id \in 1..Caps.toro_event :
          Respond(Main, "delete_event", Delete(db, seq, sess[Main], "toro_event", id))

create_plan ==
    /\ pc[Main] = "idle"
    /\ seq.maintenance_plan <= Caps.maintenance_plan
    /\ \E form \in PlanForms(Caps) :
          Respond(Main, "create_plan",
                  Created(db, seq, sess[Main], "maintenance_plan", PlanColumns, form))

edit_plan ==
    /\ pc[Main] = "idle"
    /\ \E id \in 1..Caps.maintenance_plan :
          \E form \in IF id \in Ids(db, "maintenance_plan") THEN PlanForms(Caps) ELSE {<<>>} :
             Respond(Main, "edit_plan",
                     Edit(db, seq, sess[Main], "maintenance_plan", id, PlanColumns, form))

delete_plan ==
    /\ pc[Main] = "idle"
    /\ \E id \in 1..Caps.maintenance_plan :
          Respond(Main, "delete_plan", Delete(db, seq, sess[Main], "maintenance_plan", id))

create_asset ==
    /\ pc[Main] = "idle"
    /\ seq.material_assets <= Caps.material_assets
    /\ \E form \in AssetForms :
          Respond(Main, "create_asset",
                  Created(db, seq, sess[Main], "material_assets", AssetColumns, form))

edit_asset ==
    /\ pc[Main] = "idle"
    /\ \E id \in 1..Caps.material_assets :
          \E form \in IF id \in Ids(db, "material_assets") THEN AssetForms ELSE {<<>>} :
             Respond(Main, "edit_asset",
                     Edit(db, seq, sess[Main], "material_assets", id, AssetColumns, form))

delete_asset ==
    /\ pc[Main] = "idle"
    /\ \E id \in 1..Caps.material_assets :
          Respond(Main, "delete_asset", Delete(db, seq, sess[Main], "material_assets", id))

create_need ==
    /\ pc[Main] = "idle"
    /\ seq.needs <= Caps.needs
    /\ \E form \in NeedForms(Caps) :
          Respond(Main, "create_need",
                  Created(db, seq, sess[Main], "needs", NeedColumns, form))

edit_need ==
    /\ pc[Main] = "idle"
    /\ \E id \in 1..Caps.needs :
          \E form \in IF id \in Ids(db, "needs") THEN NeedForms(Caps) ELSE {<<>>} :
             Respond(Main, "edit_need",
                     Edit(db, seq, sess[Main], "needs", id, NeedColumns, form))

delete_need ==
    /\ pc[Main] = "idle"
    /\ \E id \in 1..Caps.needs :
          Respond(Main, "delete_need", Delete(db, seq, sess[Main], "needs", id))

create_completed ==
    /\ pc[Main] = "idle"
    /\ seq.completed_work <= Caps.completed_work
    /\ \E form \in CompletedForms(Caps) :
          Respond(Main, "create_completed",
                  Created(db, seq, sess[Main], "completed_work", CompletedColumns, form))

edit_completed ==
    /\ pc[Main] = "idle"
    /\ \E id \in 1..Caps.completed_work :
          \E form \in IF id \in Ids(db, "completed_work") THEN CompletedForms(Caps) ELSE {<<>>} :
             Respond(Main, "edit_completed",
                     Edit(db, seq, sess[Main], "completed_work", id, CompletedColumns, form))

delete_completed ==
    /\ pc[Main] = "idle"
    /\ \E id \in 1..Caps.completed_work :
          Respond(Main, "delete_completed", Delete(db, seq, sess[Main], "completed_work", id))

Next ==
    \/ create_equipment \/ edit_equipment \/ delete_equipment
    \/ create_event \/ edit_event \/ delete_event
    \/ create_plan \/ edit_plan \/ delete_plan
    \/ create_asset \/ edit_asset \/ delete_asset
    \/ create_need \/ edit_need \/ delete_need
    \/ create_completed \/ edit_completed \/ delete_completed

Spec == Init /\ [][Next]_vars

----------------------------------------------------------------------------
(* Concurrent workers.  A handler reads at get_or_404 and at the cascade    *)
(* loads of session.delete, and writes when it commits; other workers'     *)
(* commits may fall in between.                                            *)

\* Under concurrency the forms posted are those every assignment accepts: a
\* form that raises before the commit never reaches the store.
Accepted(attrs, forms) == {f \in forms : Assign(attrs, f, 1, NoAttrs).err = ""}

Routes ==
    { [kind |-> k, name |-> r[1], table |-> r[2], attrs |-> r[3],
       forms |-> Accepted(r[3], r[4])] :
        k \in {"create", "edit", "delete"},
        r \in { <<"equipment", "equipment", EquipmentColumns, EquipmentForms>>,
                <<"event", "toro_event", EventColumns, EventForms>>,
                <<"plan", "maintenance_plan", PlanColumns, PlanForms(ConcurrentCaps)>>,
                <<"asset", "material_assets", AssetColumns, AssetForms>>,
                <<"need", "needs", NeedColumns, NeedForms(ConcurrentCaps)>>,
                <<"completed", "completed_work", CompletedColumns,
                  CompletedForms(ConcurrentCaps)>> } }

RouteName(r) == r.kind \o "_" \o r.name

\* A create handler: it reads nothing before its commit.
Create(w) ==
    /\ pc[w] = "idle"
    /\ \E r \in {x \in Routes : x.kind = "create"} :
          /\ seq[r.table] <= ConcurrentCaps[r.table]
          /\ \E form \in r.forms :
                Respond(w, RouteName(r),
                        Created(db, seq, sess[w], r.table, r.attrs, form))

\* session.delete of a row of table t has collections to load.
Cascades(t) == \E rel \in Relationships : rel.parent = t /\ rel.cascade_delete

\* An edit or delete handler at its first line: get_or_404.  Where
\* session.delete loads nothing, it is taken in the same step.
Begin(w) ==
    /\ pc[w] = "idle"
    /\ \E r \in {x \in Routes : x.kind # "create"} :
       \E id \in 1..ConcurrentCaps[r.table] :
          LET g == get_or_404(db, r.table, id)
          IN  IF g.status # "200"
              THEN Respond(w, RouteName(r), Raised(db, seq, sess[w], g.status))
              ELSE /\ \E form \in IF r.kind = "edit" THEN r.forms ELSE {<<>>} :
                         req' = [req EXCEPT ![w] =
                                   [route |-> RouteName(r), id |-> id, form |-> form]]
                   /\ pc' = [pc EXCEPT ![w] =
                               IF r.kind = "delete" /\ Cascades(r.table)
                               THEN "delete" ELSE "commit"]
                   /\ sess' = [sess EXCEPT ![w] =
                                 IF r.kind = "delete" /\ ~Cascades(r.table)
                                 THEN session_delete(db, Load(@, r.table, id, g.row),
                                                     r.table, id)
                                 ELSE Load(@, r.table, id, g.row)]
                   /\ UNCHANGED <<db, seq, issued, resp>>

\* A delete handler at db.session.delete(obj): the cascade loads read the
\* store as it is now.
Cascade(w) ==
    /\ pc[w] = "delete"
    /\ \E r \in {x \in Routes : RouteName(x) = req[w].route} :
          sess' = [sess EXCEPT ![w] = session_delete(db, @, r.table, req[w].id)]
    /\ pc' = [pc EXCEPT ![w] = "commit"]
    /\ UNCHANGED <<db, seq, issued, req, resp>>

\* ... and from the assignments (an edit) to the response.
Finish(w) ==
    /\ pc[w] = "commit"
    /\ \E r \in {x \in Routes : RouteName(x) = req[w].route} :
          Respond(w, req[w].route,
                  IF r.kind = "edit"
                  THEN Edited(db, seq, sess[w], r.table, req[w].id, r.attrs, req[w].form)
                  ELSE Committed(db, seq, sess[w]))

NextConcurrent == \E w \in Workers : Create(w) \/ Begin(w) \/ Cascade(w) \/ Finish(w)

SpecConcurrent == Init /\ [][NextConcurrent]_vars

----------------------------------------------------------------------------
(* Vocabulary of the properties. *)

Plans(d) == Ids(d, "maintenance_plan")
Needs(d) == Ids(d, "needs")
Works(d) == Ids(d, "completed_work")

\* The plans of store d that reference row id through column col, and the
\* needs and completed works that reference one of the plans P.
PlansOf(d, col, id) == {p \in Plans(d) : d.maintenance_plan[p][col] = id}
NeedsOf(d, P) == {n \in Needs(d) : d.needs[n].maintenanceplanid \in P}
WorksOf(d, P) == {c \in Works(d) : d.completed_work[c].maintenanceplanid \in P}
NeedsOfAsset(d, id) == {n \in Needs(d) : d.needs[n].materialassetid = id}

\* The references of the data model: the column of a table that must name a
\* row of the parent table.
References ==
    { [table |-> "maintenance_plan", column |-> "equipmentid", parent |-> "equipment"],
      [table |-> "maintenance_plan", column |-> "eventid", parent |-> "toro_event"],
      [table |-> "needs", column |-> "maintenanceplanid", parent |-> "maintenance_plan"],
      [table |-> "needs", column |-> "materialassetid", parent |-> "material_assets"],
      [table |-> "completed_work", column |-> "maintenanceplanid",
       parent |-> "maintenance_plan"] }

\* The handlers' tables, columns and forms.
Handlers ==
    { [name |-> "equipment", table |-> "equipment", attrs |-> EquipmentColumns,
       forms |-> EquipmentForms],
      [name |-> "event", table |-> "toro_event", attrs |-> EventColumns,
       forms |-> EventForms],
      [name |-> "plan", table |-> "maintenance_plan", attrs |-> PlanColumns,
       forms |-> PlanForms(Caps)],
      [name |-> "asset", table |-> "material_assets", attrs |-> AssetColumns,
       forms |-> AssetForms],
      [name |-> "need", table |-> "needs", attrs |-> NeedColumns,
       forms |-> NeedForms(Caps)],
      [name |-> "completed", table |-> "completed_work", attrs |-> CompletedColumns,
       forms |-> CompletedForms(Caps)] }

\* Worker w ends, in this step, the request of the given route.
Ends(w, route) == pc[w] # "idle" /\ pc'[w] = "idle" /\ req[w].route = route

\* The rows of table t that the step adds, removes or changes.
Touched(t) ==
    {i \in Ids(db, t) \cup Ids(db', t) :
        \/ i \notin Ids(db, t)
        \/ i \notin Ids(db', t)
        \/ db'[t][i] # db[t][i]}

\* After the step, nothing is left of row id of the parent table, of the
\* plans that referenced it through col, or of their needs and completed works.
CascadeDone(t, col, id) ==
    LET P == PlansOf(db, col, id)
    IN  /\ id \notin Ids(db', t)
        /\ PlansOf(db', col, id) = {}
        /\ P \cap Plans(db') = {}
        /\ NeedsOf(db, P) \cap Needs(db') = {}
        /\ WorksOf(db, P) \cap Works(db') = {}
        /\ NeedsOf(db', P) = {}
        /\ WorksOf(db', P) = {}

\* C1: when a delete of an Equipment row or of an Event row succeeds, no plan
\* that referenced the row remains, and no need or completed work that
\* referenced one of those plans remains.
C1_CascadeTwoLevels ==
    [][/\ \A id \in Ids(db, "equipment") :
             (resp'.route = "delete_equipment" /\ resp'.status = "302"
                /\ id \notin Ids(db', "equipment"))
             => CascadeDone("equipment", "equipmentid", id)
       /\ \A id \in Ids(db, "toro_event") :
             (resp'.route = "delete_event" /\ resp'.status = "302"
                /\ id \notin Ids(db', "toro_event"))
             => CascadeDone("toro_event", "eventid", id)
       /\ resp'.status = "302" /\ resp'.route \in {"delete_equipment", "delete_event"}
             => Cardinality(Touched(IF resp'.route = "delete_equipment"
                                    THEN "equipment" ELSE "toro_event")) = 1]_vars

\* An Event delete that took both plans, a need and a completed work with it.
C1_Witness ==
    resp.route = "delete_event" /\ resp.status = "302" /\ resp.rows >= 5

\* C2: when a delete of a MaterialAsset row succeeds, every Need row that
\* referenced the asset is gone from the store.
C2_AssetDeleteRemovesNeeds ==
    [][\A id \in Ids(db, "material_assets") :
          (resp'.route = "delete_asset" /\ resp'.status = "302"
             /\ id \notin Ids(db', "material_assets"))
          => NeedsOfAsset(db, id) \cap Needs(db') = {}]_vars

\* C3: a cascading delete is all-or-nothing: the commit of a delete handler,
\* whatever other workers committed between its reads and its commit, either
\* leaves the store as it was, or removes the target together with every row
\* that depends on it.
C3_CascadeAllOrNothing ==
    [][\A w \in Workers :
          /\ Ends(w, "delete_equipment")
                => db' = db \/ CascadeDone("equipment", "equipmentid", req[w].id)
          /\ Ends(w, "delete_event")
                => db' = db \/ CascadeDone("toro_event", "eventid", req[w].id)
          /\ Ends(w, "delete_plan")
                => \/ db' = db
                   \/ /\ req[w].id \notin Plans(db')
                      /\ NeedsOf(db, {req[w].id}) \cap Needs(db') = {}
                      /\ WorksOf(db, {req[w].id}) \cap Works(db') = {}
          /\ Ends(w, "delete_asset")
                => \/ db' = db
                   \/ /\ req[w].id \notin Ids(db', "material_assets")
                      /\ NeedsOfAsset(db, req[w].id) \cap Needs(db') = {}]_vars

\* C3, for the deletes whose dependents are reached through the plans
\* (Equipment, Event, MaintenancePlan): all-or-nothing holds.
C3_PlanCascadesAllOrNothing ==
    [][\A w \in Workers :
          /\ Ends(w, "delete_equipment")
                => db' = db \/ CascadeDone("equipment", "equipmentid", req[w].id)
          /\ Ends(w, "delete_event")
                => db' = db \/ CascadeDone("toro_event", "eventid", req[w].id)
          /\ Ends(w, "delete_plan")
                => \/ db' = db
                   \/ /\ req[w].id \notin Plans(db')
                      /\ NeedsOf(db, {req[w].id}) \cap Needs(db') = {}
                      /\ WorksOf(db, {req[w].id}) \cap Works(db') = {}]_vars

\* C5: no orphan: every foreign key of every stored row names a row that
\* exists.
C5_NoOrphans ==
    \A ref \in References : \A i \in Ids(db, ref.table) :
        db[ref.table][i][ref.column] \in Ids(db, ref.parent)

\* C5, with a cleared reference allowed: no foreign key names a missing row.
C5_NoDanglingReference == ForeignKeysHold(db)

\* A form of table t names, in one of its reference columns, a row that
\* store d does not have.
Dangling(d, t, form) ==
    \E ref \in References :
        ref.table = t /\ int(form[ref.column]) \notin Ids(d, ref.parent)

\* C4: a create of a MaintenancePlan, Need or CompletedWork whose form is
\* otherwise well-formed but names a missing row in a foreign-key field fails
\* with the engine's IntegrityError (the ReferenceError of the data model)
\* and leaves the store as it was.
C4_DanglingCreateFails ==
    \A h \in {x \in Handlers : \E ref \in References : ref.table = x.table} :
    \A form \in Accepted(h.attrs, h.forms) :
        Dangling(db, h.table, form)
        => LET o == Created(db, seq, sess[Main], h.table, h.attrs, form)
           IN  o.status = "IntegrityError" /\ o.db = db /\ o.ids = {}

\* A create of a plan was refused for its reference.
C4_Witness == resp.route = "create_plan" /\ resp.status = "IntegrityError"

\* C6: an identifier a create assigns was never assigned before by a create
\* of the same table.
C6_IdentifiersNeverReused ==
    [][\A t \in Tables : (Ids(db', t) \ Ids(db, t)) \cap issued[t] = {}]_vars

\* Equipment 1 was created and deleted while it held the highest identifier,
\* and the create that followed was given identifier 2.
C6_Witness ==
    /\ resp.route = "create_equipment" /\ resp.status = "302"
    /\ Ids(db, "equipment") = {2}
    /\ issued.equipment = {1, 2}

\* C7: a successful delete of an Equipment row removes the row, its N plans
\* and the needs and completed works of those plans, 1 + N + (needs) +
\* (completed works) rows in all, and leaves every other row present and
\* unchanged.
C7_EquipmentDeleteFrame ==
    [][(resp'.route = "delete_equipment" /\ resp'.status = "302")
       => \E id \in Ids(db, "equipment") :
            LET P == PlansOf(db, "equipmentid", id)
                N == NeedsOf(db, P)
                K == WorksOf(db, P)
                gone == {<<"equipment", id>>}
                        \cup {<<"maintenance_plan", p>> : p \in P}
                        \cup {<<"needs", n>> : n \in N}
                        \cup {<<"completed_work", c>> : c \in K}
            IN  /\ \A t \in Tables :
                      /\ Ids(db', t) = {i \in Ids(db, t) : <<t, i>> \notin gone}
                      /\ \A i \in Ids(db', t) : db'[t][i] = db[t][i]
                /\ RowCount(db) - RowCount(db')
                     = 1 + Cardinality(P) + Cardinality(N) + Cardinality(K)]_vars

\* An Equipment delete that removed a plan with a need and a completed work
\* while another Equipment row with a plan of its own, the Event and the
\* MaterialAsset stayed.
C7_Witness ==
    /\ resp.route = "delete_equipment" /\ resp.status = "302" /\ resp.rows >= 4
    /\ Ids(db, "equipment") # {}
    /\ Plans(db) # {}
    /\ Ids(db, "toro_event") # {}
    /\ Ids(db, "material_assets") # {}

\* C8: an edit or a delete addressed to an identifier that has no row of the
\* table answers 404 (NotFoundError) and leaves the store as it was.
C8_MissingRowNotFound ==
    \A h \in Handlers : \A id \in 1..Caps[h.table] :
        id \notin Ids(db, h.table)
        => /\ \A form \in h.forms :
                LET o == Edit(db, seq, sess[Main], h.table, id, h.attrs, form)
                IN  o.status = "404" /\ o.db = db /\ o.seq = seq
           /\ LET o == Delete(db, seq, sess[Main], h.table, id)
              IN  o.status = "404" /\ o.db = db /\ o.seq = seq

\* An edit of a Need answered 404 after the Need and every plan were removed.
C8_Witness ==
    /\ resp.route = "edit_need" /\ resp.status = "404"
    /\ issued.needs # {} /\ Needs(db) = {}
    /\ issued.maintenance_plan # {} /\ Plans(db) = {}
    /\ issued.equipment # {} /\ Ids(db, "equipment") = {}

\* C9: every stored Need has a non-negative quantity.
C9_QuantityNonNegative == \A n \in Needs(db) : db.needs[n].quantity >= 0

\* C10: a request that fails leaves every stored row as it was, and what it
\* had assigned before it failed is persisted by no later request: a create
\* or an edit writes at most one row, of its own table.
C10_NoPartialApplication ==
    [][/\ resp'.status # "302" => db' = db
       /\ \A h \in Handlers :
             resp'.route \in {"create_" \o h.name, "edit_" \o h.name}
             => /\ \A t \in Tables \ {h.table} : Touched(t) = {}
                /\ Cardinality(Touched(h.table)) <= 1]_vars

\* An edit of a CompletedWork row failed on its date after assigning the plan.
C10_Witness ==
    /\ resp.route = "edit_completed" /\ resp.status = "ValueError"
    /\ Works(db) # {}

====
